---------------------------- MODULE Spec2Model ----------------------------
(***************************************************************************)
(* App-attestation authentication of swdevpa/foodtracker.                  *)
(*                                                                         *)
(*   client  src/src/utils/nutritionCalculator.ts  (SecureAuthService)     *)
(*           src/src/screens/OnboardingScreen.tsx  (AppInitialization-     *)
(*                                                  Service)               *)
(*           src/src/services/apiProxy.ts          (ApiProxyService)       *)
(*   server  src/api-proxy/src/index.ts            (the worker)            *)
(*                                                                         *)
(* Strings are sequences of symbols, so that the template literal          *)
(* `${installationId}:${keyId}` is a concatenation that can collide.       *)
(* A token string is the sequence of its '.'-separated segments; a segment *)
(* is a record that says what atob and JSON.parse make of it.              *)
(***************************************************************************)
EXTENDS Integers, Sequences, FiniteSets, TLC

(***************************************************************************)
(* Bounds of the model.                                                    *)
(***************************************************************************)
\* number of storeAppPublicKey calls in one run
MaxRegistrations == 2
\* number of clock steps in one run
MaxTicks == 1
\* number of key pairs the client process generates in one run
MaxKeyGens == 2
\* number of tokens the client process issues in one run
MaxIssued == 4
\* number of times the app process is started in one run
MaxAppStarts == 2

(***************************************************************************)
(* Program constants.                                                      *)
(***************************************************************************)
\* index.ts:339  tokenAge > 3600000
MAX_TOKEN_AGE == 3600000
\* Date.now() of the first state (any instant later than one token age)
Epoch == 2 * MAX_TOKEN_AGE

(***************************************************************************)
(* JavaScript values.                                                      *)
(***************************************************************************)
\* the value undefined, where a string is expected
Undefined == <<"#undefined">>
\* the empty string
EmptyStr == <<>>
\* !v for a string-or-undefined v
Falsy(v) == v = Undefined \/ v = EmptyStr
\* `${v}` : undefined prints as the text "undefined"
TemplateStr(v) == IF v = Undefined THEN <<"undefined">> ELSE v

\* 'com.swdevpa.foodtracker'
BUNDLE_ID == <<"com.swdevpa.foodtracker">>
OtherBundle == <<"com.example.app">>
\* 'default', the fallback installation id of handleAppRegistration
DefaultId == <<"default">>

\* a JsonWebKey: the exported public half of key pair k (key pairs are
\* named by their modulus, a positive number)
JWK(k) == [kty |-> "RSA", n |-> k]
\* no publicKey field in a registration body
NoJWK == [kty |-> "", n |-> 0]
\* a publicKey field that is not a key
JunkJWK == [kty |-> "junk", n |-> 0]
\* !publicKey
FalsyJWK(j) == j = NoJWK


(***************************************************************************)
(* JSON objects, base64url segments, signatures.                           *)
(***************************************************************************)
\* A parsed JSON object: every property read by the code, Undefined (or 0
\* for the number timestamp, which !claims.timestamp treats alike) when the
\* object does not have it.
JsonObj(alg, kid, bundleId, installationId, timestamp, nonce) ==
  [alg |-> alg, kid |-> kid, bundleId |-> bundleId,
   installationId |-> installationId, timestamp |-> timestamp, nonce |-> nonce]
\* the object {}
EmptyObj == JsonObj(Undefined, Undefined, Undefined, Undefined, 0, Undefined)
\* no signature bytes
NoSig == [by |-> 0, over |-> <<>>]

\* A '.'-free piece of a token string.
\*   enc  : "b64" when atob accepts it, "bad" when atob throws
\*   text : what the decoded text is: "obj" (the JSON text of .obj),
\*          "null" (the JSON text null), "sig" (the bytes of .sig),
\*          "raw" (text that is not JSON), "empty" (the empty string)
Segment(enc, text, obj, sig) == [enc |-> enc, text |-> text, obj |-> obj, sig |-> sig]
\* the empty segment, as in "a..b"
SegEmpty == Segment("b64", "empty", EmptyObj, NoSig)
\* a segment with a character outside the base64 alphabet
SegBad == Segment("bad", "raw", EmptyObj, NoSig)
\* base64url of text that is not JSON
SegRaw == Segment("b64", "raw", EmptyObj, NoSig)
\* base64url of the text null
SegNull == Segment("b64", "null", EmptyObj, NoSig)

\* a thrown exception, as the value of an expression
Throw == "throw"
\* the value null of JSON.parse('null')
JsNull == "null"

\* JSON.stringify followed by base64UrlEncode
base64UrlEncodeJson(o) == Segment("b64", "obj", o, NoSig)
\* String.fromCharCode(...signature) followed by base64UrlEncode
base64UrlEncodeSig(sig) == Segment("b64", "sig", EmptyObj, sig)
\* base64UrlDecode: the kind of text atob returns, or Throw
base64UrlDecode(seg) == IF seg.enc = "b64" THEN seg.text ELSE Throw
\* JSON.parse(base64UrlDecode(seg)): "obj" (the object is seg.obj), JsNull or
\* Throw (atob threw, or the text is no JSON: raw text, signature bytes, "")
JSONParseSegment(seg) ==
  LET t == base64UrlDecode(seg)
  IN  IF t = "obj" THEN "obj" ELSE IF t = "null" THEN JsNull ELSE Throw
\* the bytes base64UrlDecode(signatureB64) gives, NoSig when they are no
\* signature; Throw is handled by the caller
SignatureBytes(seg) == IF seg.text = "sig" THEN seg.sig ELSE NoSig

\* crypto.subtle.sign with the private half of key pair k over
\* `${headerEncoded}.${claimsEncoded}`
Sign(k, headerB64, claimsB64) == [by |-> k, over |-> <<headerB64, claimsB64>>]
\* crypto.subtle.importKey('jwk', ...): TRUE when it returns a key
ImportKeyOk(jwk) == jwk.kty = "RSA" /\ jwk.n > 0
\* mutant: the signature is checked against the payload but not the key
Verify_IgnoresKey(jwk, sig, headerB64, claimsB64) ==
  sig.by > 0 /\ sig.over = <<headerB64, claimsB64>>
\* mutant: the signature is checked against the key but not the payload
Verify_IgnoresPayload(jwk, sig, headerB64, claimsB64) ==
  sig.by = jwk.n
\* crypto.subtle.verify with the imported public key
Verify(jwk, sig, headerB64, claimsB64) ==
  sig.by = jwk.n /\ sig.over = <<headerB64, claimsB64>>
\* SHA-256 of JSON.stringify(jwk) in hex: one string per key
Fingerprint(jwk) == <<"sha256_", ToString(jwk.n)>>


(***************************************************************************)
(* The server's registry: const appRegistry = new Map<string, JsonWebKey>  *)
(* A function from key strings to stored publicKey values.                 *)
(***************************************************************************)
\* new Map()
EmptyRegistry == [k \in {} |-> NoJWK]
\* `${installationId}:${keyId}`
RegistryKey(installationId, keyId) ==
  TemplateStr(installationId) \o <<":">> \o TemplateStr(keyId)
\* mutant: an existing entry is kept, the new key is dropped
storeAppPublicKey_KeepsFirst(reg, installationId, keyId, publicKey) ==
  LET key == RegistryKey(installationId, keyId)
  IN  [k \in (DOMAIN reg) \cup {key} |-> IF k \in DOMAIN reg THEN reg[k] ELSE publicKey]
\* storeAppPublicKey: appRegistry.set(key, publicKey)
storeAppPublicKey(reg, installationId, keyId, publicKey) ==
  LET key == RegistryKey(installationId, keyId)
  IN  [k \in (DOMAIN reg) \cup {key} |-> IF k = key THEN publicKey ELSE reg[k]]
\* getAppPublicKey: appRegistry.get(key) || null  (NoJWK stands for null)
getAppPublicKey(reg, installationId, keyId) ==
  LET key == RegistryKey(installationId, keyId)
  IN  IF key \in DOMAIN reg THEN reg[key] ELSE NoJWK

(***************************************************************************)
(* validateSecureToken                                                     *)
(***************************************************************************)
\* the reason strings of validateSecureToken
R_FORMAT == "Invalid token format"
R_ALG == "Unsupported algorithm"
R_CLAIMS == "Missing required claims"
R_BUNDLE == "Invalid bundle ID"
R_EXPIRED == "Token expired"
R_UNREGISTERED == "App not registered"
R_SIGNATURE == "Invalid signature"
R_ERROR == "Validation error"
\* { valid: true } has no reason
NoReason == ""

\* The result of one call: valid and reason are what the function returns;
\* lookup and verify record whether the call reached getAppPublicKey
\* (line 344) and crypto.subtle.verify (line 367).
Result(valid, reason, lookup, verify) ==
  [valid |-> valid, reason |-> reason, lookup |-> lookup, verify |-> verify]
Reject(reason, lookup, verify) == Result(FALSE, reason, lookup, verify)

\* lines 349-378, with the key the registry returned
VerifyWithKey(publicKeyJWK, headerB64, claimsB64, signatureB64) ==
  IF ~ImportKeyOk(publicKeyJWK) THEN Reject(R_ERROR, TRUE, FALSE)
  ELSE IF base64UrlDecode(signatureB64) = Throw THEN Reject(R_ERROR, TRUE, FALSE)
  ELSE IF ~Verify(publicKeyJWK, SignatureBytes(signatureB64), headerB64, claimsB64)
       THEN Reject(R_SIGNATURE, TRUE, TRUE)
  ELSE Result(TRUE, NoReason, TRUE, TRUE)

\* mutant: 'none' is accepted as an algorithm too
AlgSupported_AllowsNone(alg) == alg \in {<<"RS256">>, <<"none">>}
\* line 323: header.alg !== 'RS256' is the rejection
AlgSupported(alg) == alg = <<"RS256">>
\* mutant: the age limit is one millisecond too generous
TokenExpired_Late(now, timestamp) == now - timestamp > MAX_TOKEN_AGE + 1
\* mutant: any token older than zero milliseconds is expired
TokenExpired_Early(now, timestamp) == now - timestamp > 0
\* lines 338-339: tokenAge = Date.now() - claims.timestamp; tokenAge > 3600000
TokenExpired(now, timestamp) == now - timestamp > MAX_TOKEN_AGE

\* lines 327-347, with the parsed claims object
CheckClaims(reg, now, header, claims, headerB64, claimsB64, signatureB64) ==
  IF Falsy(claims.bundleId) \/ claims.timestamp = 0 \/ Falsy(claims.installationId)
    THEN Reject(R_CLAIMS, FALSE, FALSE)
  ELSE IF claims.bundleId # BUNDLE_ID THEN Reject(R_BUNDLE, FALSE, FALSE)
  ELSE IF TokenExpired(now, claims.timestamp) THEN Reject(R_EXPIRED, FALSE, FALSE)
  ELSE LET publicKeyJWK == getAppPublicKey(reg, claims.installationId, header.kid)
       IN  IF FalsyJWK(publicKeyJWK) THEN Reject(R_UNREGISTERED, TRUE, FALSE)
           ELSE VerifyWithKey(publicKeyJWK, headerB64, claimsB64, signatureB64)

\* validateSecureToken(token, env) at server time now, registry reg
validateSecureToken(token, reg, now) ==
  IF Len(token) # 3 THEN Reject(R_FORMAT, FALSE, FALSE)
  ELSE LET headerB64 == token[1]
           claimsB64 == token[2]
           signatureB64 == token[3]
           header == JSONParseSegment(headerB64)
           claims == JSONParseSegment(claimsB64)
       IN  IF header = Throw \/ claims = Throw THEN Reject(R_ERROR, FALSE, FALSE)
           \* null.alg throws a TypeError
           ELSE IF header = JsNull THEN Reject(R_ERROR, FALSE, FALSE)
           ELSE IF ~AlgSupported(headerB64.obj.alg) THEN Reject(R_ALG, FALSE, FALSE)
           \* null.bundleId throws a TypeError
           ELSE IF claims = JsNull THEN Reject(R_ERROR, FALSE, FALSE)
           ELSE CheckClaims(reg, now, headerB64.obj, claimsB64.obj,
                            headerB64, claimsB64, signatureB64)


(***************************************************************************)
(* Requests and responses of the worker.                                   *)
(***************************************************************************)
P_GEMINI == "/api/gemini/generate"
P_USDA == "/api/usda/search"
P_REGISTER == "/api/register-app"
P_HEALTH == "/api/health"

\* An Authorization header: scheme "none" (no header), "Basic" (a value
\* that does not start with 'Bearer ') or "Bearer"; token is
\* authHeader.substring(7) split on '.'
Auth(scheme, token) == [token |-> token, scheme |-> scheme]
NoAuth == Auth("none", <<>>)
BasicAuth == Auth("Basic", <<>>)
Bearer(token) == Auth("Bearer", token)

\* A request body: json says whether request.json() returns; the fields
\* are those handleAppRegistration reads.
Body(json, bundleId, publicKey, fingerprint, installationId) ==
  [bundleId |-> bundleId, installationId |-> installationId,
   publicKey |-> publicKey, json |-> json, fingerprint |-> fingerprint]
\* a body that is no JSON
NotJsonBody == Body(FALSE, Undefined, NoJWK, Undefined, Undefined)
\* a JSON body with none of the registration fields
PlainJsonBody == Body(TRUE, Undefined, NoJWK, Undefined, Undefined)

Request(method, path, auth, body) ==
  [method |-> method, path |-> path, auth |-> auth, body |-> body]

\* What one call of fetch did.  status, error, reason, success: the
\* Response (absent body fields are "" / FALSE).  registry: appRegistry
\* afterwards.  called, val: whether validateSecureToken was called, and
\* what it returned.  handler: the handler that ran ("" when none).
\* upstream: whether the handler called the upstream API.
NoVal == Result(FALSE, NoReason, FALSE, FALSE)
Outcome(status, error, reason, success, registry, called, val, handler, upstream) ==
  [reason |-> reason, status |-> status, error |-> error, success |-> success,
   registry |-> registry, called |-> called, val |-> val, handler |-> handler,
   upstream |-> upstream]

\* handleGeminiRequest / handleUSDARequest; up is the upstream API's status
handleProxyRequest(name, request, reg, up, called, val) ==
  IF request.method # "POST"
    THEN Outcome(405, "Method not allowed", "", FALSE, reg, called, val, name, FALSE)
  \* await request.json() throws; caught in fetch
  ELSE IF ~request.body.json
    THEN Outcome(500, "Internal server error", "", FALSE, reg, called, val, name, FALSE)
  ELSE IF up # 200
    THEN Outcome(up, "API error", "", FALSE, reg, called, val, name, TRUE)
  ELSE Outcome(200, "", "", FALSE, reg, called, val, name, TRUE)

\* lines 406-411: the arguments of the storeAppPublicKey call,
\* registrationData.installationId || 'default' first
StoreArgs(registrationData) ==
  [installationId |-> IF Falsy(registrationData.installationId) THEN DefaultId
                      ELSE registrationData.installationId,
   publicKey |-> registrationData.publicKey,
   fingerprint |-> registrationData.fingerprint]

\* handleAppRegistration
handleAppRegistration(request, reg, called, val) ==
  LET registrationData == request.body
  IN  IF request.method # "POST"
        THEN Outcome(405, "Method not allowed", "", FALSE, reg, called, val, "register", FALSE)
      \* await request.json() throws; caught in handleAppRegistration
      ELSE IF ~registrationData.json
        THEN Outcome(500, "Registration failed", "", FALSE, reg, called, val, "register", FALSE)
      ELSE IF Falsy(registrationData.bundleId) \/ FalsyJWK(registrationData.publicKey)
              \/ Falsy(registrationData.fingerprint)
        THEN Outcome(400, "Invalid registration data", "", FALSE, reg, called, val, "register", FALSE)
      ELSE LET a == StoreArgs(registrationData)
           IN  Outcome(200, "", "", TRUE,
                       storeAppPublicKey(reg, a.installationId, a.fingerprint, a.publicKey),
                       called, val, "register", FALSE)

\* lines 79-102 of fetch: the dispatch on the path
Dispatch(request, reg, up, called, val) ==
  IF request.path = P_GEMINI THEN handleProxyRequest("gemini", request, reg, up, called, val)
  ELSE IF request.path = P_USDA THEN handleProxyRequest("usda", request, reg, up, called, val)
  ELSE IF request.path = P_REGISTER THEN handleAppRegistration(request, reg, called, val)
  ELSE IF request.path = P_HEALTH
    THEN Outcome(200, "", "", FALSE, reg, called, val, "health", FALSE)
  ELSE Outcome(404, "Not found", "", FALSE, reg, called, val, "", FALSE)

\* mutant: a bearer token is let through whatever the validator said
AuthGate_SkipsValidation(request, val) ==
  IF request.auth.scheme # "Bearer" THEN "Unauthorized" ELSE ""
\* mutant: no check of the header before the validator's verdict is read
AuthGate_NoHeaderCheck(request, val) ==
  IF ~val.valid THEN "Authentication failed" ELSE ""
\* mutant: the registration route is let through without a token
AuthGate_ExemptsRegistration(request, val) ==
  IF request.path = P_REGISTER THEN ""
  ELSE IF request.auth.scheme # "Bearer" THEN "Unauthorized"
  ELSE IF ~val.valid THEN "Authentication failed"
  ELSE ""
\* The authentication step of fetch, lines 52-74: "" when the request is
\* let through, else the error of the 401 response.
AuthGate(request, val) ==
  IF request.auth.scheme # "Bearer" THEN "Unauthorized"
  ELSE IF ~val.valid THEN "Authentication failed"
  ELSE ""

\* export default { fetch }
Fetch(request, reg, now, up) ==
  IF request.method = "OPTIONS"
    THEN Outcome(200, "", "", FALSE, reg, FALSE, NoVal, "", FALSE)
  ELSE LET called == request.auth.scheme = "Bearer"
           val == IF called THEN validateSecureToken(request.auth.token, reg, now)
                  ELSE NoVal
           gate == AuthGate(request, val)
       IN  IF gate = "Unauthorized"
             THEN Outcome(401, gate, "", FALSE, reg, FALSE, NoVal, "", FALSE)
           ELSE IF gate # ""
             THEN Outcome(401, gate, val.reason, FALSE, reg, TRUE, val, "", FALSE)
           ELSE Dispatch(request, reg, up, TRUE, val)


(***************************************************************************)
(* The client: SecureAuthService, AppInitializationService,                *)
(* ApiProxyService.                                                        *)
(***************************************************************************)
\* `install_${Date.now()}_${Math.random().toString(36)}` of the app install
InstallId == <<"install_", "1">>
\* generateSecureNonce(): 16 random bytes in hex, fresh for every token
Nonce(i) == <<"nonce_", ToString(i)>>

\* the header object of generateSecureToken, lines 393-397
TokenHeader(kid) == JsonObj(<<"RS256">>, kid, Undefined, Undefined, 0, Undefined)
\* the claims object of generateSecureToken, lines 383-390
TokenClaims(bundleId, installationId, timestamp, nonce) ==
  JsonObj(Undefined, Undefined, bundleId, installationId, timestamp, nonce)
\* lines 399-414: encode, sign with the private key of pair k, join with '.'
SignedToken(k, header, claims) ==
  LET headerEncoded == base64UrlEncodeJson(header)
      claimsEncoded == base64UrlEncodeJson(claims)
  IN  <<headerEncoded, claimsEncoded,
        base64UrlEncodeSig(Sign(k, headerEncoded, claimsEncoded))>>
\* generateSecureToken with key pair k held, at client time ts
generateSecureToken(k, installationId, ts, nonce) ==
  SignedToken(k, TokenHeader(Fingerprint(JWK(k))),
              TokenClaims(BUNDLE_ID, installationId, ts, nonce))
\* the body registerWithServer posts, lines 487-493: bundleId, publicKey,
\* fingerprint, appVersion, registrationTime; no installationId
RegistrationBody(k) == Body(TRUE, BUNDLE_ID, JWK(k), Fingerprint(JWK(k)), Undefined)
\* the request registerWithServer sends, lines 482-494: no Authorization
RegistrationRequest(k) == Request("POST", P_REGISTER, NoAuth, RegistrationBody(k))
\* the endpoints ApiProxyService appends to baseUrl, apiProxy.ts:78,89
ClientEndpoints == {"/gemini/generate", "/usda/search"}
\* mutant: makeRequest sends no Authorization header
AuthHeader_Empty(token) == NoAuth
\* apiProxy.ts:30,59  { 'Authorization': `Bearer ${token}` }
AuthHeader(token) == Bearer(token)
\* response.ok, for the statuses the worker answers with
ResponseOk(status) == status = 200
\* mutant: any response that is not ok is retried
ShouldRetry_AnyError(status) == ~ResponseOk(status)
\* apiProxy.ts:48-51  !response.ok and response.status === 401
ShouldRetry(status) == ~ResponseOk(status) /\ status = 401
\* the errors makeRequest ends with ("" when it returns the response body):
\* line 33, lines 64 and 70, and the error of crypto.subtle.sign that the
\* retry (line 53) lets through
E_AUTH == "Authentication failed"
E_API == "API Error"
E_SIGN == "sign error"
\* one fetch of makeRequest: its Authorization header, the response status
FetchRecord(auth, status) == <<auth, status>>
FetchAuth(f) == f[1]
FetchStatus(f) == f[2]

(***************************************************************************)
(* State.                                                                  *)
(***************************************************************************)
VARIABLES
  appRegistry,     \* server: the Map appRegistry
  registered,      \* history: the arguments of every storeAppPublicKey call
  regs,            \* history: the number of storeAppPublicKey calls
  now,             \* Date.now()
  ticks,           \* the number of clock steps taken
  keyPair,         \* client: secureAuth.keyPair (0 is null)
  keyGens,         \* client: the number of key pairs generated
  installationId,  \* client: global.__FOODTRACKER_INSTALLATION_ID
  appRegistered,   \* client: global.__FOODTRACKER_APP_REGISTERED === true
  issued,          \* client: the number of tokens issued
  lastToken,       \* client: the last token generateSecureToken returned
  registerSent,    \* client: registerWithServer has completed once
  lastOp,          \* the call whose outcome is being returned ("idle": none)
  lastReq,         \* its request
  lastOut,         \* its outcome
  fetches,         \* client: the fetches of the makeRequest call returning
  thrown,          \* client: the error that makeRequest call ends with
  appStarts,       \* client: the number of times the app process was started
  pc,              \* client: where each asynchronous task is suspended
  jwkRead,         \* client: the key pair each task exported the publicKey of
  kidRead          \* client: the key pair each task computed the fingerprint of

serverVars == <<appRegistry, registered, regs>>
clockVars == <<now, ticks>>
clientVars == <<keyPair, keyGens, installationId, appRegistered, issued,
                lastToken, registerSent, appStarts>>
lastVars == <<lastOp, lastReq, lastOut>>
callVars == <<fetches, thrown>>
taskVars == <<pc, jwkRead, kidRead>>
vars == <<serverVars, clockVars, clientVars, lastVars, callVars, taskVars>>

\* the asynchronous tasks that run on the one secureAuth instance
Tasks == {1, 2}

NoRequest == Request("", "", NoAuth, NotJsonBody)
NoOutcome == Outcome(0, "", "", FALSE, EmptyRegistry, FALSE, NoVal, "", FALSE)

Init ==
  /\ appRegistry = EmptyRegistry
  /\ registered = {}
  /\ regs = 0
  /\ now = Epoch
  /\ ticks = 0
  /\ keyPair = 0
  /\ keyGens = 0
  /\ installationId = Undefined
  /\ appRegistered = FALSE
  /\ issued = 0
  /\ lastToken = <<>>
  /\ registerSent = FALSE
  /\ lastOp = "idle"
  /\ lastReq = NoRequest
  /\ lastOut = NoOutcome
  /\ fetches = <<>>
  /\ thrown = ""
  /\ appStarts = 1
  /\ pc = [t \in Tasks |-> "idle"]
  /\ jwkRead = [t \in Tasks |-> 0]
  /\ kidRead = [t \in Tasks |-> 0]

\* the server's state after a call with outcome out for request req
ServerAfter(req, out) ==
  /\ appRegistry' = out.registry
  /\ IF out.success
       THEN /\ registered' = registered \cup {StoreArgs(req.body)}
            /\ regs' = regs + 1
       ELSE UNCHANGED <<registered, regs>>


(***************************************************************************)
(* Inputs.                                                                 *)
(***************************************************************************)
\* the key pairs that exist outside the client process under study
InputKeys == {1, 2}
\* strings with and without the separator ':'
StrA == <<"a">>
StrAB == <<"a", ":", "b">>
StrBA == <<"b", ":", "a">>
\* the steps of the clock
TickSizes == {1, MAX_TOKEN_AGE + 1}
\* a timestamp that is MAX_TOKEN_AGE ahead of the clock after MaxTicks + 1
\* steps of the largest size
FutureStamp == Epoch + (MaxTicks + 1) * (MAX_TOKEN_AGE + 1) + MAX_TOKEN_AGE
\* the status of the upstream API
UpstreamStatus == {200, 503}

\* Registration bodies: every pairing of the two keys with the two real
\* fingerprints, with and without installationId (the client's body is
\* among them); two bodies whose registry keys collide; a body whose
\* publicKey is no key; bodies that lack a field; a body that is no JSON.
RegBodies ==
  {Body(TRUE, BUNDLE_ID, JWK(k), Fingerprint(JWK(f)), i) :
     k \in InputKeys, f \in InputKeys, i \in {Undefined, InstallId}}
  \cup {Body(TRUE, BUNDLE_ID, JWK(1), StrBA, StrA),
        Body(TRUE, BUNDLE_ID, JWK(2), StrA, StrAB),
        Body(TRUE, BUNDLE_ID, JunkJWK, Fingerprint(JWK(1)), InstallId),
        Body(TRUE, Undefined, JWK(1), Fingerprint(JWK(1)), InstallId),
        Body(TRUE, BUNDLE_ID, NoJWK, Fingerprint(JWK(1)), InstallId),
        Body(TRUE, BUNDLE_ID, JWK(1), Undefined, InstallId),
        PlainJsonBody, NotJsonBody}

\* the (installationId, kid) pairs of the input tokens
TokenIds ==
  ({InstallId, DefaultId} \X {Fingerprint(JWK(k)) : k \in InputKeys})
  \cup {<<StrA, StrBA>>, <<StrAB, StrA>>}
\* the (bundleId, timestamp) pairs of the input tokens: as issued at Epoch,
\* another app's, older than MAX_TOKEN_AGE at Epoch, without bundleId,
\* one millisecond younger than MAX_TOKEN_AGE at Epoch, stamped
\* MAX_TOKEN_AGE after the last time the clock can show
TokenFacts ==
  {<<BUNDLE_ID, Epoch>>, <<OtherBundle, Epoch>>,
   <<BUNDLE_ID, Epoch - MAX_TOKEN_AGE - 1>>, <<Undefined, Epoch>>,
   <<BUNDLE_ID, Epoch - MAX_TOKEN_AGE + 1>>,
   <<BUNDLE_ID, FutureStamp>>}
\* RS256 tokens signed over their own header and claims by key k
SelfSignedTokens ==
  {SignedToken(k, TokenHeader(id[2]), TokenClaims(f[1], id[1], f[2], Nonce(0))) :
     k \in InputKeys, id \in TokenIds, f \in TokenFacts}
\* the token the install would issue at Epoch with key 1, and its parts
BaseToken == generateSecureToken(1, InstallId, Epoch, Nonce(0))
\* tokens that differ from BaseToken in the header, or in the signature
\* segment, or in the number or the form of the segments
OddTokens ==
  {SignedToken(1, JsonObj(alg, Fingerprint(JWK(1)), Undefined, Undefined, 0, Undefined),
               BaseToken[2].obj) : alg \in {<<"none">>, <<"HS256">>, Undefined}}
  \cup {SignedToken(1, TokenHeader(Undefined), BaseToken[2].obj)}
  \cup {<<BaseToken[1], BaseToken[2], s>> : s \in {SegEmpty, SegBad, SegRaw}}
  \cup {<<SegEmpty>>, <<BaseToken[1], BaseToken[2]>>,
        <<BaseToken[1], BaseToken[2], BaseToken[3], BaseToken[3]>>}
  \cup {<<h, BaseToken[2], BaseToken[3]>> : h \in {SegEmpty, SegBad, SegRaw, SegNull}}
  \cup {<<BaseToken[1], c, BaseToken[3]>> : c \in {SegEmpty, SegBad, SegRaw, SegNull}}
\* tokens for BaseToken's app whose header names another algorithm: with
\* BaseToken's claims or the JSON text null for claims; with a signature by
\* key 1 over the token's own header and claims, an empty signature
\* segment, a signature segment atob rejects
AlgTokens ==
  {<<h, c, s>> :
     h \in {base64UrlEncodeJson(JsonObj(alg, Fingerprint(JWK(1)), Undefined,
                                        Undefined, 0, Undefined)) :
              alg \in {<<"none">>, <<"HS256">>}},
     c \in {BaseToken[2], SegNull},
     s \in {SegEmpty, SegBad}}
  \cup {SignedToken(1, JsonObj(<<"none">>, Fingerprint(JWK(1)), Undefined,
                               Undefined, 0, Undefined), BaseToken[2].obj)}
\* the tokens validateSecureToken is called with
InputTokens == SelfSignedTokens \cup OddTokens \cup AlgTokens

\* the paths of the input requests: the worker's four routes and a path
\* that is none of them
InputPaths == {P_GEMINI, P_USDA, P_REGISTER, P_HEALTH, "/gemini/generate"}
\* a registration body as the spec describes it, with all four fields
FullRegistrationBody == Body(TRUE, BUNDLE_ID, JWK(2), Fingerprint(JWK(2)), InstallId)
\* The requests fetch is called with from outside the client under study:
\* POST with every Authorization header on every path; GET and OPTIONS with
\* and without a token; POST with a token and the other bodies; the
\* registration the spec describes, without Authorization.
InputRequests ==
  {Request("POST", p, a, PlainJsonBody) :
     p \in InputPaths,
     a \in {NoAuth, BasicAuth, Bearer(BaseToken), Bearer(<<BaseToken[1], BaseToken[2]>>)}}
  \cup {Request(m, p, a, NotJsonBody) :
     m \in {"GET", "OPTIONS"}, p \in InputPaths, a \in {NoAuth, Bearer(BaseToken)}}
  \cup {Request("POST", p, Bearer(BaseToken), b) :
     p \in InputPaths, b \in {NotJsonBody, FullRegistrationBody}}
  \cup {Request("POST", P_REGISTER, NoAuth, FullRegistrationBody)}

(***************************************************************************)
(* Actions.                                                                *)
(***************************************************************************)
\* no call is in progress: the previous one has returned
Idle == lastOp = "idle"

\* the call returns to its caller; nothing of it remains but its effects
Return ==
  /\ ~Idle
  /\ lastOp' = "idle"
  /\ lastReq' = NoRequest
  /\ lastOut' = NoOutcome
  /\ fetches' = <<>>
  /\ thrown' = ""
  /\ UNCHANGED <<serverVars, clockVars, clientVars, taskVars>>

\* time passes
Tick ==
  /\ Idle
  /\ ticks < MaxTicks
  /\ \E d \in TickSizes : now' = now + d
  /\ ticks' = ticks + 1
  /\ UNCHANGED <<serverVars, clientVars, lastVars, callVars, taskVars>>

\* the worker's fetch handles a request from anywhere
OutsideFetch ==
  \E request \in InputRequests, up \in UpstreamStatus :
    LET out == Fetch(request, appRegistry, now, up)
    IN  /\ Idle
        /\ out.success => regs < MaxRegistrations
        /\ lastOp' = "fetch"
        /\ lastReq' = request
        /\ lastOut' = out
        /\ ServerAfter(request, out)
        /\ UNCHANGED <<clockVars, clientVars, callVars, taskVars>>

\* handleAppRegistration is called with a POST request as its argument
CallHandleAppRegistration ==
  \E body \in RegBodies :
    LET request == Request("POST", P_REGISTER, NoAuth, body)
        out == handleAppRegistration(request, appRegistry, FALSE, NoVal)
    IN  /\ Idle
        /\ out.success => regs < MaxRegistrations
        /\ lastOp' = "register"
        /\ lastReq' = request
        /\ lastOut' = out
        /\ ServerAfter(request, out)
        /\ UNCHANGED <<clockVars, clientVars, callVars, taskVars>>

\* handleAppRegistration is called with a body for a key pair of the
\* client process under study: the body registerWithServer builds, or that
\* body with the client's installationId added
CallRegisterClientKey ==
  \E k \in 1..MaxKeyGens, i \in {Undefined, InstallId} :
    LET request == Request("POST", P_REGISTER, NoAuth,
                           Body(TRUE, BUNDLE_ID, JWK(k), Fingerprint(JWK(k)), i))
        out == handleAppRegistration(request, appRegistry, FALSE, NoVal)
    IN  /\ Idle
        /\ out.success => regs < MaxRegistrations
        /\ lastOp' = "register"
        /\ lastReq' = request
        /\ lastOut' = out
        /\ ServerAfter(request, out)
        /\ UNCHANGED <<clockVars, clientVars, callVars, taskVars>>

\* validateSecureToken is called with a token as its argument
CallValidateSecureToken ==
  \E token \in InputTokens :
    /\ Idle
    /\ lastOp' = "validate"
    /\ lastReq' = Request("", "", Bearer(token), NotJsonBody)
    /\ lastOut' = Outcome(0, "", "", FALSE, appRegistry, TRUE,
                          validateSecureToken(token, appRegistry, now), "", FALSE)
    /\ UNCHANGED <<serverVars, clockVars, clientVars, callVars, taskVars>>


\* initialize(): generateKey stores a new pair in this.keyPair
\* (the n-th pair generated is named n)
NewKeyPair == keyGens + 1
\* `install_${Date.now()}_${Math.random().toString(36)}`: a new id, another
\* one in every run of the app process that makes one (InstallId in the first)
NewInstallationId == <<"install_", ToString(appStarts)>>
\* getInstallationId(): the stored id, else a new one that is then stored
CurrentInstallationId ==
  IF installationId = Undefined THEN NewInstallationId ELSE installationId
\* mutant: the app is marked as registered whatever the server answered
RegisteredAfter_Always(registrationSuccess) == TRUE
\* OnboardingScreen.tsx:414-421: markAppAsRegistered() only
\* if (registrationSuccess)
RegisteredAfter(registrationSuccess) == registrationSuccess

\* AppInitializationService.initializeApp()
ClientInitializeApp ==
  /\ Idle
  /\ IF appRegistered
       THEN /\ lastOp' = "initializeApp"
            /\ lastReq' = NoRequest
            /\ lastOut' = NoOutcome
            /\ UNCHANGED <<serverVars, clockVars, clientVars, callVars, taskVars>>
       ELSE /\ keyGens < MaxKeyGens
            /\ LET k == NewKeyPair
                   request == RegistrationRequest(k)
                   out == Fetch(request, appRegistry, now, 200)
               IN  /\ out.success => regs < MaxRegistrations
                   /\ keyPair' = k
                   /\ keyGens' = keyGens + 1
                   /\ registerSent' = TRUE
                   \* response.ok
                   /\ appRegistered' = RegisteredAfter(ResponseOk(out.status))
                   /\ lastOp' = "initializeApp"
                   /\ lastReq' = request
                   /\ lastOut' = out
                   /\ ServerAfter(request, out)
            /\ UNCHANGED <<clockVars, installationId, issued, lastToken, appStarts,
                           callVars, taskVars>>

\* what crypto.subtle does during one call of makeRequest: nothing fails,
\* generateKey throws, sign throws for the first token, sign throws for the
\* token of the retry
CryptoFailures == {"none", "generateKey", "sign", "signRetry"}

\* ApiProxyService.makeRequest(endpoint) with useSecureAuth: a token, one
\* fetch, and after a 401 a new token and a second fetch
ClientMakeRequest ==
  \E endpoint \in ClientEndpoints, up \in UpstreamStatus, failure \in CryptoFailures :
    /\ Idle
    /\ issued + 2 <= MaxIssued
    /\ keyPair = 0 => keyGens < MaxKeyGens
    \* generateKey is called only when there is no key pair
    /\ failure = "generateKey" => keyPair = 0
    /\ LET generated == keyPair = 0 /\ failure # "generateKey"
           k == IF generated THEN NewKeyPair ELSE keyPair
           id == CurrentInstallationId
           token == generateSecureToken(k, id, now, Nonce(issued + 1))
           request == Request("POST", endpoint, AuthHeader(token), PlainJsonBody)
           out == Fetch(request, appRegistry, now, up)
           newToken == generateSecureToken(k, id, now, Nonce(issued + 2))
           retry == Request("POST", endpoint, AuthHeader(newToken), PlainJsonBody)
           retryOut == Fetch(retry, out.registry, now, up)
           sent == failure \notin {"generateKey", "sign"}
           again == sent /\ ShouldRetry(out.status)
           resent == again /\ failure # "signRetry"
       IN  \* sign is called a second time only for the retry
           /\ failure = "signRetry" => again
           /\ keyPair' = k
           /\ keyGens' = IF generated THEN keyGens + 1 ELSE keyGens
           /\ installationId' = IF failure = "generateKey" THEN installationId ELSE id
           /\ issued' = IF resent THEN issued + 2 ELSE IF sent THEN issued + 1 ELSE issued
           /\ lastToken' = IF resent THEN newToken ELSE IF sent THEN token ELSE lastToken
           /\ fetches' = IF resent THEN <<FetchRecord(request.auth, out.status),
                                          FetchRecord(retry.auth, retryOut.status)>>
                         ELSE IF sent THEN <<FetchRecord(request.auth, out.status)>>
                         ELSE <<>>
           /\ thrown' = IF ~sent THEN E_AUTH
                        ELSE IF again /\ ~resent THEN E_SIGN
                        ELSE IF resent
                          THEN (IF ResponseOk(retryOut.status) THEN "" ELSE E_API)
                        ELSE IF ResponseOk(out.status) THEN "" ELSE E_API
           /\ lastOp' = "makeRequest"
           /\ lastReq' = IF resent THEN retry ELSE IF sent THEN request ELSE NoRequest
           /\ lastOut' = IF resent THEN retryOut ELSE IF sent THEN out ELSE NoOutcome
           /\ IF resent THEN ServerAfter(retry, retryOut)
              ELSE IF sent THEN ServerAfter(request, out)
              ELSE UNCHANGED serverVars
    /\ UNCHANGED <<clockVars, appRegistered, registerSent, appStarts, taskVars>>

\* AppInitializationService.getRegistrationStatus(): GET /api/health
ClientGetRegistrationStatus ==
  LET request == Request("GET", P_HEALTH, NoAuth, NotJsonBody)
      out == Fetch(request, appRegistry, now, 200)
  IN  /\ Idle
      /\ lastOp' = "getRegistrationStatus"
      /\ lastReq' = request
      /\ lastOut' = out
      /\ ServerAfter(request, out)
      /\ UNCHANGED <<clockVars, clientVars, callVars, taskVars>>

\* the worker process is restarted: index.ts is loaded again, and line 430
\* makes a new, empty Map
Restart ==
  /\ Idle
  /\ appRegistry' = EmptyRegistry
  /\ UNCHANGED <<registered, regs, clockVars, clientVars, lastVars, callVars, taskVars>>

\* the worker's fetch handles a registration request that carries a bearer
\* token, from anywhere
OutsideRegistration ==
  \E token \in InputTokens :
    LET request == Request("POST", P_REGISTER, Bearer(token), FullRegistrationBody)
        out == Fetch(request, appRegistry, now, 200)
    IN  /\ Idle
        /\ out.success => regs < MaxRegistrations
        /\ lastOp' = "fetch"
        /\ lastReq' = request
        /\ lastOut' = out
        /\ ServerAfter(request, out)
        /\ UNCHANGED <<clockVars, clientVars, callVars, taskVars>>

\* AppInitializationService.initializeApp() with the answer to the
\* registration as an input: ok is what registerWithServer returns
\* (response.ok, or false when fetch throws), whichever server answers
CallInitializeApp ==
  \E ok \in BOOLEAN :
    /\ Idle
    /\ IF appRegistered
         THEN /\ lastOp' = "initializeApp"
              /\ lastReq' = NoRequest
              /\ lastOut' = NoOutcome
              /\ UNCHANGED clientVars
         ELSE /\ keyGens < MaxKeyGens
              /\ keyPair' = NewKeyPair
              /\ keyGens' = keyGens + 1
              /\ registerSent' = TRUE
              /\ appRegistered' = RegisteredAfter(ok)
              /\ lastOp' = "initializeApp"
              /\ lastReq' = RegistrationRequest(NewKeyPair)
              /\ lastOut' = Outcome(IF ok THEN 200 ELSE 503, "", "", FALSE,
                                    appRegistry, FALSE, NoVal, "", FALSE)
              /\ UNCHANGED <<installationId, issued, lastToken, appStarts>>
    /\ UNCHANGED <<serverVars, clockVars, callVars, taskVars>>

\* the app process ends and is started again: secureAuth is a new object
\* (keyPair = null) and the globals __FOODTRACKER_INSTALLATION_ID and
\* __FOODTRACKER_APP_REGISTERED are undefined again
ClientRestart ==
  /\ Idle
  /\ appStarts < MaxAppStarts
  /\ appStarts' = appStarts + 1
  /\ keyPair' = 0
  /\ installationId' = Undefined
  /\ appRegistered' = FALSE
  /\ UNCHANGED <<keyGens, issued, lastToken, registerSent>>
  /\ UNCHANGED <<serverVars, clockVars, lastVars, callVars, taskVars>>

(***************************************************************************)
(* The asynchronous functions of SecureAuthService and initializeApp, one  *)
(* action for each stretch of code that runs between two awaits.  Task t   *)
(* is one call of generateSecureToken() or of initializeApp().            *)
(***************************************************************************)
\* the tasks that wait for crypto.subtle.generateKey
GeneratingKey == {t \in Tasks : pc[t] \in {"token:generateKey", "app:generateKey"}}
\* task t moves on to location l
Goto(t, l) == pc' = [pc EXCEPT ![t] = l]
\* generateSecureToken when the fingerprint was computed for key pair
\* kidKey and crypto.subtle.sign used the private key of pair signKey
generateSecureTokenWith(kidKey, signKey, id, ts, nonce) ==
  SignedToken(signKey, TokenHeader(Fingerprint(JWK(kidKey))),
              TokenClaims(BUNDLE_ID, id, ts, nonce))

\* generateSecureToken() is called, lines 378-387: without a key pair it
\* calls initialize(), which waits for generateKey; with one it calls
\* getInstallationId()
StartGenerateSecureToken(t) ==
  /\ pc[t] = "idle"
  /\ issued < MaxIssued
  /\ IF keyPair = 0
       THEN /\ keyGens + Cardinality(GeneratingKey) < MaxKeyGens
            /\ Goto(t, "token:generateKey")
            /\ UNCHANGED installationId
       ELSE /\ Goto(t, "token:claims")
            /\ installationId' = CurrentInstallationId
  /\ UNCHANGED <<keyPair, keyGens, appRegistered, issued, lastToken, registerSent,
                 appStarts, jwkRead, kidRead>>
  /\ UNCHANGED <<serverVars, clockVars, lastVars, callVars>>

\* generateKey resolves, lines 356-365: this.keyPair = the new pair
FinishGenerateKey(t) ==
  /\ t \in GeneratingKey
  /\ keyPair' = NewKeyPair
  /\ keyGens' = keyGens + 1
  /\ Goto(t, IF pc[t] = "token:generateKey" THEN "token:initialized"
             ELSE "app:initialized")
  /\ UNCHANGED <<installationId, appRegistered, issued, lastToken, registerSent,
                 appStarts, jwkRead, kidRead>>
  /\ UNCHANGED <<serverVars, clockVars, lastVars, callVars>>

\* generateSecureToken after await this.initialize(): getInstallationId()
TokenGetInstallationId(t) ==
  /\ pc[t] = "token:initialized"
  /\ installationId' = CurrentInstallationId
  /\ Goto(t, "token:claims")
  /\ UNCHANGED <<keyPair, keyGens, appRegistered, issued, lastToken, registerSent,
                 appStarts, jwkRead, kidRead>>
  /\ UNCHANGED <<serverVars, clockVars, lastVars, callVars>>

\* lines 388-397: the claims, then getPublicKeyFingerprint(), whose
\* getPublicKeyJWK() exports this.keyPair.publicKey as it is now
TokenReadFingerprint(t) ==
  /\ pc[t] = "token:claims"
  /\ kidRead' = [kidRead EXCEPT ![t] = keyPair]
  /\ Goto(t, "token:header")
  /\ UNCHANGED <<clientVars, jwkRead>>
  /\ UNCHANGED <<serverVars, clockVars, lastVars, callVars>>

\* lines 399-414: crypto.subtle.sign with this.keyPair.privateKey as it is
\* now; the token is returned
TokenSign(t) ==
  /\ pc[t] = "token:header"
  /\ lastToken' = generateSecureTokenWith(kidRead[t], keyPair, installationId, now,
                                          Nonce(issued + 1))
  /\ issued' = issued + 1
  /\ kidRead' = [kidRead EXCEPT ![t] = 0]
  /\ Goto(t, "idle")
  /\ UNCHANGED <<keyPair, keyGens, installationId, appRegistered, registerSent,
                 appStarts, jwkRead>>
  /\ UNCHANGED <<serverVars, clockVars, lastVars, callVars>>

\* initializeApp() is called while the app is not marked registered,
\* OnboardingScreen.tsx:398-408: initialize() waits for generateKey
StartInitializeApp(t) ==
  /\ pc[t] = "idle"
  /\ ~appRegistered
  /\ keyGens + Cardinality(GeneratingKey) < MaxKeyGens
  /\ Goto(t, "app:generateKey")
  /\ UNCHANGED <<clientVars, jwkRead, kidRead>>
  /\ UNCHANGED <<serverVars, clockVars, lastVars, callVars>>

\* registerWithServer, line 479: getPublicKeyJWK() exports
\* this.keyPair.publicKey as it is now
AppReadPublicKey(t) ==
  /\ pc[t] = "app:initialized"
  /\ jwkRead' = [jwkRead EXCEPT ![t] = keyPair]
  /\ Goto(t, "app:publicKey")
  /\ UNCHANGED <<clientVars, kidRead>>
  /\ UNCHANGED <<serverVars, clockVars, lastVars, callVars>>

\* registerWithServer, line 480: getPublicKeyFingerprint() exports
\* this.keyPair.publicKey as it is now, and hashes it
AppReadFingerprint(t) ==
  /\ pc[t] = "app:publicKey"
  /\ kidRead' = [kidRead EXCEPT ![t] = keyPair]
  /\ Goto(t, "app:fingerprint")
  /\ UNCHANGED <<clientVars, jwkRead>>
  /\ UNCHANGED <<serverVars, clockVars, lastVars, callVars>>

\* registerWithServer, lines 482-496, and the rest of initializeApp: the
\* request is sent and answered
AppSendRegistration(t) ==
  LET request == Request("POST", P_REGISTER, NoAuth,
                         Body(TRUE, BUNDLE_ID, JWK(jwkRead[t]),
                              Fingerprint(JWK(kidRead[t])), Undefined))
      out == Fetch(request, appRegistry, now, 200)
  IN  /\ pc[t] = "app:fingerprint"
      /\ out.success => regs < MaxRegistrations
      /\ registerSent' = TRUE
      /\ appRegistered' = RegisteredAfter(ResponseOk(out.status))
      /\ lastOp' = "initializeApp"
      /\ lastReq' = request
      /\ lastOut' = out
      /\ ServerAfter(request, out)
      /\ jwkRead' = [jwkRead EXCEPT ![t] = 0]
      /\ kidRead' = [kidRead EXCEPT ![t] = 0]
      /\ Goto(t, "idle")
      /\ UNCHANGED <<keyPair, keyGens, installationId, issued, lastToken, appStarts>>
      /\ UNCHANGED <<clockVars, callVars>>

(***************************************************************************)
(* Specifications.                                                         *)
(*   Spec      the deployed system: the app and anyone else reach the      *)
(*             worker through fetch only.                                  *)
(*   UnitSpec  the worker's functions called directly, so that the         *)
(*             registry holds entries when tokens are validated (one       *)
(*             lifetime of the worker process).                            *)
(*   RestartSpec  the same functions, and restarts of the worker process.  *)
(*   AppRestartSpec  the app, and restarts of the app process.             *)
(*   RaceSpec  calls of generateSecureToken() and initializeApp() that     *)
(*             overlap in time.                                            *)
(*   ClientSpec  the app in front of a worker whose handleAppRegistration  *)
(*             is called directly, so that the app's tokens can be         *)
(*             admitted.                                                   *)
(***************************************************************************)
Next ==
  \/ Return
  \/ Tick
  \/ OutsideFetch
  \/ OutsideRegistration
  \/ ClientInitializeApp
  \/ ClientMakeRequest
  \/ ClientGetRegistrationStatus

Spec == Init /\ [][Next]_vars

UnitNext ==
  \/ Return
  \/ Tick
  \/ OutsideFetch
  \/ CallHandleAppRegistration
  \/ CallValidateSecureToken

UnitSpec == Init /\ [][UnitNext]_vars

RestartNext ==
  \/ Return
  \/ CallHandleAppRegistration
  \/ CallValidateSecureToken
  \/ Restart

RestartSpec == Init /\ [][RestartNext]_vars

AppRestartNext ==
  \/ Return
  \/ ClientInitializeApp
  \/ ClientMakeRequest
  \/ ClientRestart

AppRestartSpec == Init /\ [][AppRestartNext]_vars

RaceNext ==
  \/ Return
  \/ \E t \in Tasks : StartGenerateSecureToken(t)
  \/ \E t \in Tasks : FinishGenerateKey(t)
  \/ \E t \in Tasks : TokenGetInstallationId(t)
  \/ \E t \in Tasks : TokenReadFingerprint(t)
  \/ \E t \in Tasks : TokenSign(t)
  \/ \E t \in Tasks : StartInitializeApp(t)
  \/ \E t \in Tasks : AppReadPublicKey(t)
  \/ \E t \in Tasks : AppReadFingerprint(t)
  \/ \E t \in Tasks : AppSendRegistration(t)

RaceSpec == Init /\ [][RaceNext]_vars

ClientNext ==
  \/ Return
  \/ CallRegisterClientKey
  \/ CallInitializeApp
  \/ ClientInitializeApp
  \/ ClientMakeRequest
  \/ ClientGetRegistrationStatus

ClientSpec == Init /\ [][ClientNext]_vars


(***************************************************************************)
(* Reading the call whose outcome is being returned.                       *)
(***************************************************************************)
\* validateSecureToken was called in it
Validated == lastOut.called
\* the token it was called with
LastTokenSeen == lastReq.auth.token
\* the token has three segments whose first two decode to JSON objects
Parses(t) ==
  /\ Len(t) = 3
  /\ JSONParseSegment(t[1]) = "obj"
  /\ JSONParseSegment(t[2]) = "obj"
\* header.kid and claims.installationId of a token that parses
KidOf(t) == t[1].obj.kid
InstallationOf(t) == t[2].obj.installationId
\* a token that parses, says RS256, has the three required claims, the
\* expected bundle id and a timestamp not older than MAX_TOKEN_AGE
FreshWellFormed(t) ==
  /\ Parses(t)
  /\ t[1].obj.alg = <<"RS256">>
  /\ t[2].obj.bundleId = BUNDLE_ID
  /\ ~Falsy(InstallationOf(t))
  /\ t[2].obj.timestamp > 0
  /\ now - t[2].obj.timestamp <= MAX_TOKEN_AGE
\* the signature segment holds a signature of key k over the token's own
\* header and claims segments
SignedBy(t, k) ==
  /\ Len(t) = 3
  /\ t[3].enc = "b64" /\ t[3].text = "sig"
  /\ t[3].sig = [by |-> k, over |-> <<t[1], t[2]>>]
\* the request is a POST, GET, ... to one of the two proxy endpoints
ToProtectedEndpoint ==
  /\ lastOp = "fetch"
  /\ lastReq.method # "OPTIONS"
  /\ lastReq.path \in {P_GEMINI, P_USDA}

(***************************************************************************)
(* C1 - C10                                                                *)
(***************************************************************************)
\* C1: round trip.  Once the client has registered its key
\* (initializeApp -> registerWithServer -> POST /api/register-app), a token
\* it issues with generateSecureToken and sends with makeRequest is admitted
\* by validateSecureToken.
C1_RoundTripAdmitted ==
  (lastOp = "makeRequest" /\ registerSent /\ fetches # <<>>
   /\ LastTokenSeen = lastToken)
    => (Validated /\ lastOut.val.valid)

\* C2: whenever validateSecureToken admits a token, a registration was made
\* (a storeAppPublicKey call) whose fingerprint is the token's header.kid
\* and whose installationId is the token's claims.installationId.
C2_AdmittedHasRegistration ==
  (Validated /\ lastOut.val.valid)
    => \E r \in registered :
         /\ r.fingerprint = KidOf(LastTokenSeen)
         /\ r.installationId = InstallationOf(LastTokenSeen)

\* C3: for a non-OPTIONS request to /api/gemini/generate or /api/usda/search
\* the handler runs, and the upstream API is called, only if
\* validateSecureToken admits the request's bearer token; when validation
\* fails the response is 401 {error: "Authentication failed", reason} with
\* the validator's reason, and no handler runs.
C3_ProtectedOnlyAfterValidation ==
  ToProtectedEndpoint =>
    LET admitted ==
          /\ lastReq.auth.scheme = "Bearer"
          /\ validateSecureToken(LastTokenSeen, appRegistry, now).valid
    IN  /\ (lastOut.handler # "" \/ lastOut.upstream) => admitted
        /\ (lastReq.auth.scheme = "Bearer" /\ ~admitted) =>
             /\ lastOut.status = 401
             /\ lastOut.error = "Authentication failed"
             /\ lastOut.reason = validateSecureToken(LastTokenSeen, appRegistry, now).reason
             /\ lastOut.reason # NoReason
             /\ lastOut.handler = ""
             /\ ~lastOut.upstream
\* C3 witness: the gemini handler called the upstream API for an admitted token
C3_Witness ==
  /\ ToProtectedEndpoint
  /\ lastReq.path = P_GEMINI
  /\ lastOut.upstream
  /\ lastOut.val.valid

\* the value appRegistry holds for the token's (installationId, kid)
C4_StoredKey(t) == appRegistry[RegistryKey(InstallationOf(t), KidOf(t))]
\* appRegistry holds a usable key for the token's (installationId, kid)
C4_HasStoredKey(t) ==
  /\ RegistryKey(InstallationOf(t), KidOf(t)) \in DOMAIN appRegistry
  /\ ImportKeyOk(C4_StoredKey(t))
\* C4: when the registry lookup for the token's (installationId, kid)
\* returns a usable key K1, a fresh well-formed token signed by any other
\* key is rejected with 'Invalid signature' (also when that other key is
\* stored under another fingerprint), and a token is admitted only if its
\* signature verifies under the key stored for its (installationId, kid).
C4_OnlyStoredKeyVerifies ==
  Validated =>
    LET t == LastTokenSeen
    IN  /\ lastOut.val.valid =>
             /\ Parses(t)
             /\ C4_HasStoredKey(t)
             /\ SignedBy(t, C4_StoredKey(t).n)
        /\ (/\ FreshWellFormed(t)
            /\ C4_HasStoredKey(t)
            /\ \E k \in InputKeys : k # C4_StoredKey(t).n /\ SignedBy(t, k))
             => (~lastOut.val.valid /\ lastOut.val.reason = R_SIGNATURE)
\* C4 witness: (I1, F1) holds K1, K2 is stored under (I1, F2), and a token
\* for (I1, F1) signed by K2 was rejected with 'Invalid signature'
C4_Witness ==
  /\ Validated
  /\ FreshWellFormed(LastTokenSeen)
  /\ InstallationOf(LastTokenSeen) = InstallId
  /\ KidOf(LastTokenSeen) = Fingerprint(JWK(1))
  /\ SignedBy(LastTokenSeen, 2)
  /\ getAppPublicKey(appRegistry, InstallId, Fingerprint(JWK(1))) = JWK(1)
  /\ getAppPublicKey(appRegistry, InstallId, Fingerprint(JWK(2))) = JWK(2)
  /\ lastOut.val.reason = R_SIGNATURE

\* C5: a POST /api/register-app with a well-formed body and no
\* Authorization header reaches handleAppRegistration, stores the key and
\* is answered 200 {success: true}; validateSecureToken is not called.
C5_RegistrationExempt ==
  (/\ lastOp \in {"fetch", "initializeApp"}
   /\ lastReq.method = "POST" /\ lastReq.path = P_REGISTER
   /\ lastReq.auth = NoAuth
   /\ lastReq.body.json
   /\ ~Falsy(lastReq.body.bundleId) /\ ~FalsyJWK(lastReq.body.publicKey)
   /\ ~Falsy(lastReq.body.fingerprint))
    => /\ lastOut.status = 200
       /\ lastOut.success
       /\ lastOut.handler = "register"
       /\ ~Validated
       /\ StoreArgs(lastReq.body) \in registered

\* C6: GET /api/health without an Authorization header is answered 200
\* {status: "ok"} and never 401.
C6_HealthUnauthenticated ==
  (/\ lastOp \in {"fetch", "getRegistrationStatus"}
   /\ lastReq.method = "GET" /\ lastReq.path = P_HEALTH
   /\ lastReq.auth = NoAuth)
    => (lastOut.status = 200 /\ lastOut.handler = "health")

\* C7: a request to a proxy endpoint whose Authorization header is missing
\* or does not start with 'Bearer ' is answered 401 'Unauthorized'; neither
\* validateSecureToken nor a handler is called for it.
C7_NoBearerUnauthorized ==
  (ToProtectedEndpoint /\ lastReq.auth.scheme # "Bearer")
    => /\ lastOut.status = 401
       /\ lastOut.error = "Unauthorized"
       /\ ~Validated
       /\ lastOut.handler = ""
       /\ ~lastOut.upstream
\* C7 witness: a POST to /api/usda/search with a non-Bearer header got 401
C7_Witness ==
  /\ ToProtectedEndpoint
  /\ lastReq.path = P_USDA
  /\ lastReq.auth = BasicAuth
  /\ lastOut.status = 401


\* C8: unknown app.  A fresh well-formed RS256 token, signed by its own key
\* over its own header and claims, whose (claims.installationId, header.kid)
\* pair was never registered, is rejected with 'App not registered'.
C8_NeverRegisteredRejected ==
  (/\ Validated
   /\ FreshWellFormed(LastTokenSeen)
   /\ \E k \in InputKeys : SignedBy(LastTokenSeen, k)
   /\ ~\E r \in registered :
         /\ r.installationId = InstallationOf(LastTokenSeen)
         /\ r.fingerprint = KidOf(LastTokenSeen))
    => (~lastOut.val.valid /\ lastOut.val.reason = R_UNREGISTERED)

\* a token that does not split into three non-empty segments, or whose
\* header or claims segment does not decode to JSON
C9_Malformed(t) ==
  \/ Len(t) # 3
  \/ \E i \in 1..Len(t) : t[i] = SegEmpty
  \/ JSONParseSegment(t[1]) = Throw
  \/ JSONParseSegment(t[2]) = Throw
\* C9: malformed input.  A token that does not split into exactly three
\* non-empty segments, or whose header or claims segment does not decode to
\* JSON, is rejected with the one reason 'Invalid token format', and
\* neither the registry lookup nor the signature verification runs for it.
C9_MalformedOneReason ==
  (Validated /\ C9_Malformed(LastTokenSeen))
    => /\ ~lastOut.val.valid
       /\ lastOut.val.reason = R_FORMAT
       /\ ~lastOut.val.lookup
       /\ ~lastOut.val.verify

\* The claims segments a tamperer can put in place of the original one:
\* segments that do not decode, and claims objects with other values.
C10_TamperedClaims ==
  {SegEmpty, SegBad, SegRaw, SegNull}
  \cup {base64UrlEncodeJson(TokenClaims(b, i, ts, n)) :
          b \in {BUNDLE_ID, OtherBundle, Undefined},
          i \in {InstallId, DefaultId, StrA, StrAB, Undefined},
          ts \in {Epoch, Epoch - MAX_TOKEN_AGE - 1, 0},
          n \in {Nonce(0), Nonce(1)}}
\* the token with its claims segment replaced, validated in this state
C10_Tampered(c) ==
  validateSecureToken(<<LastTokenSeen[1], c, LastTokenSeen[3]>>, appRegistry, now)
\* the replaced segment still passes every check before the signature's
C10_PassesEarlierChecks(c) ==
  LET t == <<LastTokenSeen[1], c, LastTokenSeen[3]>>
      key == RegistryKey(InstallationOf(t), KidOf(t))
  IN  /\ FreshWellFormed(t)
      /\ key \in DOMAIN appRegistry
      /\ ImportKeyOk(appRegistry[key])
\* C10 as stated (tamper detection): any modification of the claims
\* segment of an admitted token is rejected with 'Invalid signature'.
C10_TamperInvalidSignature ==
  (Validated /\ lastOut.val.valid) =>
    \A c \in C10_TamperedClaims \ {LastTokenSeen[2]} :
      /\ ~C10_Tampered(c).valid
      /\ C10_Tampered(c).reason = R_SIGNATURE
\* C10 as amended (tamper detection): any modification of the claims segment of an admitted
\* token is rejected; the reason is 'Invalid signature' exactly when the
\* modified segment passes the checks that precede the signature's, and
\* else the reason of the first of those checks that fails.
C10_TamperRejected ==
  (Validated /\ lastOut.val.valid) =>
    \A c \in C10_TamperedClaims \ {LastTokenSeen[2]} :
      /\ ~C10_Tampered(c).valid
      /\ C10_Tampered(c).reason = R_SIGNATURE <=> C10_PassesEarlierChecks(c)
      /\ C10_Tampered(c).reason \in
           {R_SIGNATURE, R_ERROR, R_CLAIMS, R_BUNDLE, R_EXPIRED, R_UNREGISTERED}
\* C10 witness: a token was admitted; with only the nonce changed it is
\* rejected with 'Invalid signature', with the bundle id changed with
\* 'Invalid bundle ID'
C10_Witness ==
  /\ Validated /\ lastOut.val.valid
  /\ LET o == LastTokenSeen[2].obj
     IN  /\ C10_Tampered(base64UrlEncodeJson(
               TokenClaims(o.bundleId, o.installationId, o.timestamp, Nonce(1)))).reason
             = R_SIGNATURE
         /\ C10_Tampered(base64UrlEncodeJson(
               TokenClaims(OtherBundle, o.installationId, o.timestamp, o.nonce))).reason
             = R_BUNDLE

(***************************************************************************)
(* C11 - C20                                                               *)
(***************************************************************************)
\* a token that passes every check but the age check: it parses, says
\* RS256, has the required claims and the expected bundle id, and its
\* signature is by the key the registry holds for its (installationId, kid)
C11_OtherwiseValid(t) ==
  /\ Parses(t)
  /\ t[1].obj.alg = <<"RS256">>
  /\ t[2].obj.bundleId = BUNDLE_ID
  /\ ~Falsy(InstallationOf(t))
  /\ t[2].obj.timestamp > 0
  /\ C4_HasStoredKey(t)
  /\ SignedBy(t, C4_StoredKey(t).n)
\* the token with its timestamp set to ts, signed again by the same key
C11_Restamped(t, ts) ==
  SignedToken(t[3].sig.by, t[1].obj,
              TokenClaims(t[2].obj.bundleId, t[2].obj.installationId, ts, t[2].obj.nonce))
\* C11: expiry boundary.  An otherwise valid and registered token with
\* timestamp = now - MAX_TOKEN_AGE - 1 is rejected with 'Token expired'; one
\* with timestamp = now - MAX_TOKEN_AGE + 1 is admitted.
C11_ExpiryBoundary ==
  (Validated /\ C11_OtherwiseValid(LastTokenSeen)) =>
    LET ts == LastTokenSeen[2].obj.timestamp
    IN  /\ ts = now - MAX_TOKEN_AGE - 1 =>
             (~lastOut.val.valid /\ lastOut.val.reason = R_EXPIRED)
        /\ ts = now - MAX_TOKEN_AGE + 1 => lastOut.val.valid
\* C11 witness: a registered token one millisecond younger than
\* MAX_TOKEN_AGE was admitted, and the same token stamped two milliseconds
\* earlier is rejected with 'Token expired'
C11_Witness ==
  /\ Validated
  /\ C11_OtherwiseValid(LastTokenSeen)
  /\ LastTokenSeen[2].obj.timestamp = now - MAX_TOKEN_AGE + 1
  /\ lastOut.val.valid
  /\ validateSecureToken(C11_Restamped(LastTokenSeen, now - MAX_TOKEN_AGE - 1),
                         appRegistry, now).reason = R_EXPIRED

\* a registration body with the fields handleAppRegistration stores, its
\* publicKey a key
C12_KeyBody(b) ==
  /\ b.json
  /\ ~Falsy(b.bundleId) /\ ~Falsy(b.fingerprint)
  /\ ImportKeyOk(b.publicKey)
\* a step in which handleAppRegistration ran for such a body
C12_Registers ==
  /\ lastOut'.handler = "register"
  /\ lastReq'.method = "POST"
  /\ C12_KeyBody(lastReq'.body)
\* the registry answers tokens for the pair of registration r with r's key
\* alone: a fresh well-formed token for the pair is admitted exactly if r's
\* key signed it, and gets 'Invalid signature' when another key did
C12_OnlyKey(r) ==
  (/\ Validated /\ ~lastOut.success
   /\ FreshWellFormed(LastTokenSeen)
   /\ InstallationOf(LastTokenSeen) = r.installationId
   /\ KidOf(LastTokenSeen) = r.fingerprint)
    => /\ lastOut.val.valid <=> SignedBy(LastTokenSeen, r.publicKey.n)
       /\ (\E k \in InputKeys : k # r.publicKey.n /\ SignedBy(LastTokenSeen, k))
            => lastOut.val.reason = R_SIGNATURE
\* C12: last write wins.  A registration of a pair (installationId,
\* fingerprint) never errors, whatever the registry holds for the pair, and
\* afterwards the lookup for the pair returns the key of this registration;
\* while the registry holds K_b for a pair, tokens for the pair are admitted
\* only with K_b's signature, and tokens signed by another key (K_a, that
\* K_b replaced) get 'Invalid signature'.
C12_LastWriteWins ==
  /\ [][C12_Registers =>
          LET a == StoreArgs(lastReq'.body)
          IN  /\ lastOut'.status = 200 /\ lastOut'.success
              /\ getAppPublicKey(appRegistry', a.installationId, a.fingerprint)
                   = a.publicKey]_vars
  /\ [](\A r \in registered :
          (/\ ImportKeyOk(r.publicKey)
           /\ getAppPublicKey(appRegistry, r.installationId, r.fingerprint) = r.publicKey)
            => C12_OnlyKey(r))
\* C12 witness: the pair (InstallId, fingerprint of key 1) was registered
\* twice, with key 1 and with key 2; the registry holds key 2, and a token
\* for the pair signed by key 1 got 'Invalid signature'
C12_Witness ==
  /\ regs = 2
  /\ registered = {[installationId |-> InstallId, publicKey |-> JWK(k),
                    fingerprint |-> Fingerprint(JWK(1))] : k \in {1, 2}}
  /\ getAppPublicKey(appRegistry, InstallId, Fingerprint(JWK(1))) = JWK(2)
  /\ Validated
  /\ FreshWellFormed(LastTokenSeen)
  /\ InstallationOf(LastTokenSeen) = InstallId
  /\ KidOf(LastTokenSeen) = Fingerprint(JWK(1))
  /\ SignedBy(LastTokenSeen, 1)
  /\ lastOut.val.reason = R_SIGNATURE

\* pairs of installationId and fingerprint strings, some containing ':'
C13_Pairs ==
  {InstallId, DefaultId, StrA, StrAB}
    \X {Fingerprint(JWK(1)), Fingerprint(JWK(2)), StrA, StrBA}
\* C13: composite-key isolation.  A storeAppPublicKey call for the pair
\* (i1, f1) leaves the lookup for every other pair (i2, f2) as it was.
C13_CompositeKeyIsolation ==
  [][regs' = regs + 1 =>
       LET a == StoreArgs(lastReq'.body)
       IN  \A p \in C13_Pairs :
             p # <<a.installationId, a.fingerprint>> =>
               getAppPublicKey(appRegistry', p[1], p[2])
                 = getAppPublicKey(appRegistry, p[1], p[2])]_vars

\* C14: durability.  Every registration the server accepted is still
\* answered by the registry lookup, across restarts of the worker process;
\* so a fresh token of the only app ever registered, signed by the
\* registered key, is admitted.
C14_RegistryDurable ==
  /\ \A r \in registered :
       getAppPublicKey(appRegistry, r.installationId, r.fingerprint) # NoJWK
  /\ \A r \in registered :
       (/\ registered = {r}
        /\ ImportKeyOk(r.publicKey)
        /\ lastOp = "validate"
        /\ FreshWellFormed(LastTokenSeen)
        /\ InstallationOf(LastTokenSeen) = r.installationId
        /\ KidOf(LastTokenSeen) = r.fingerprint
        /\ SignedBy(LastTokenSeen, r.publicKey.n))
         => lastOut.val.valid

\* a registration body that is not JSON or lacks one of the four fields
C15_MalformedBody(b) ==
  \/ ~b.json
  \/ Falsy(b.bundleId) \/ FalsyJWK(b.publicKey)
  \/ Falsy(b.fingerprint) \/ Falsy(b.installationId)
\* C15: a registration request with a malformed body is answered 400 and
\* stores nothing; a request with all four fields is stored and answered
\* 200 {success: true}.
C15_MalformedBody400 ==
  (lastOut.handler = "register" /\ lastReq.method = "POST") =>
    IF C15_MalformedBody(lastReq.body)
      THEN lastOut.status = 400 /\ ~lastOut.success
      ELSE lastOut.status = 200 /\ lastOut.success

\* C16: bounded retry.  One call of makeRequest performs at most two
\* fetches; the second happens only after a 401 and carries a newly issued
\* token, not the first one; when the second response is not ok the call
\* ends with an error.  (After a 401 the retry is left out only when the
\* new token could not be signed.)
C16_BoundedRetry ==
  lastOp = "makeRequest" =>
    /\ Len(fetches) <= 2
    /\ Len(fetches) = 2 =>
         /\ FetchStatus(fetches[1]) = 401
         /\ FetchAuth(fetches[2]) # FetchAuth(fetches[1])
         /\ FetchAuth(fetches[2]).token = lastToken
         /\ ~ResponseOk(FetchStatus(fetches[2])) => thrown = E_API
    /\ (Len(fetches) = 1 /\ FetchStatus(fetches[1]) = 401) => thrown = E_SIGN
\* C16 witness: a call made two fetches, the second answered not ok, and
\* ended with an error
C16_Witness ==
  /\ lastOp = "makeRequest"
  /\ Len(fetches) = 2
  /\ FetchStatus(fetches[1]) = 401
  /\ ~ResponseOk(FetchStatus(fetches[2]))
  /\ thrown = E_API

\* an Authorization header with a token generateSecureToken made: signed by
\* the client's key pair, with its fingerprint and installation id
C17_IssuedByClient(a) ==
  /\ a.scheme = "Bearer"
  /\ keyPair # 0
  /\ Parses(a.token)
  /\ SignedBy(a.token, keyPair)
  /\ KidOf(a.token) = Fingerprint(JWK(keyPair))
  /\ InstallationOf(a.token) = installationId
C18_KeyPairKept ==
  [][keyPair # 0 => keyPair' = keyPair]_vars

\* C19: the registration request of the client carries all four fields, the
\* installationId being the one the client's tokens carry and the
\* fingerprint the one they carry as kid, so that the server stores the key
\* under that pair.
C19_RegistrationCarriesInstallationId ==
  (lastOp = "initializeApp" /\ lastReq.path = P_REGISTER) =>
    /\ ~Falsy(lastReq.body.bundleId)
    /\ ~FalsyJWK(lastReq.body.publicKey)
    /\ ~Falsy(lastReq.body.fingerprint)
    /\ ~Falsy(lastReq.body.installationId)
    /\ StoreArgs(lastReq.body).installationId = CurrentInstallationId
    /\ StoreArgs(lastReq.body).fingerprint = Fingerprint(JWK(keyPair))

\* a token that has a header.alg to check: three segments, a header that
\* decodes to a JSON object, a claims segment that decodes to JSON
C20_HasAlg(t) ==
  /\ Len(t) = 3
  /\ JSONParseSegment(t[1]) = "obj"
  /\ JSONParseSegment(t[2]) # Throw
\* C20: a token (of three segments that decode to JSON) whose header.alg is
\* not 'RS256' is rejected with 'Unsupported algorithm', whatever the
\* registry holds and whatever its signature segment is.
C20_OtherAlgRejected ==
  (/\ Validated
   /\ C20_HasAlg(LastTokenSeen)
   /\ LastTokenSeen[1].obj.alg # <<"RS256">>)
    => (~lastOut.val.valid /\ lastOut.val.reason = R_ALG)
\* C20 witness: a token with alg 'none', for a registered pair and signed by
\* the registered key, was rejected with 'Unsupported algorithm'
C20_Witness ==
  /\ Validated
  /\ C20_HasAlg(LastTokenSeen)
  /\ LastTokenSeen[1].obj.alg = <<"none">>
  /\ C4_HasStoredKey(LastTokenSeen)
  /\ SignedBy(LastTokenSeen, C4_StoredKey(LastTokenSeen).n)
  /\ lastOut.val.reason = R_ALG

(***************************************************************************)
(* C21 - C30                                                               *)
(***************************************************************************)
\* the token fails the format/parse check: not three segments, a header or
\* claims segment that does not decode to JSON, or a header that is null
C21_Unparsable(t) ==
  \/ Len(t) # 3
  \/ JSONParseSegment(t[1]) \in {Throw, JsNull}
  \/ JSONParseSegment(t[2]) = Throw
\* the signature check of a token that parses: the stored key is imported
\* and the signature segment is a signature by it over header and claims
C21_SignatureVerifies(t, reg) ==
  VerifyWithKey(getAppPublicKey(reg, InstallationOf(t), KidOf(t)), t[1], t[2], t[3]).valid
\* the reason of the earliest failing check when the seven checks run in
\* the order format/parse, algorithm, required claims, bundle id, token
\* age, registry lookup, signature, each with a reason of its own
C21_ExpectedReason(t, reg, time) ==
  IF C21_Unparsable(t) THEN R_FORMAT
  ELSE IF t[1].obj.alg # <<"RS256">> THEN R_ALG
  ELSE IF \/ JSONParseSegment(t[2]) = JsNull
          \/ Falsy(t[2].obj.bundleId)
          \/ t[2].obj.timestamp = 0
          \/ Falsy(InstallationOf(t)) THEN R_CLAIMS
  ELSE IF t[2].obj.bundleId # BUNDLE_ID THEN R_BUNDLE
  ELSE IF time - t[2].obj.timestamp > MAX_TOKEN_AGE THEN R_EXPIRED
  ELSE IF FalsyJWK(getAppPublicKey(reg, InstallationOf(t), KidOf(t))) THEN R_UNREGISTERED
  ELSE IF ~C21_SignatureVerifies(t, reg) THEN R_SIGNATURE
  ELSE NoReason
\* C21: validation order.  The checks run in the order format/parse,
\* algorithm, required claims, bundle id, token age, registry lookup,
\* signature, and stop at the first failure: a token is rejected with the
\* reason of its earliest failing check, each check has a reason of its
\* own, and a token that fails no check is admitted.
C21_EarliestFailingCheck ==
  (Validated /\ ~lastOut.success) =>
    LET expected == C21_ExpectedReason(LastTokenSeen, appRegistry, now)
    IN  /\ lastOut.val.reason = expected
        /\ lastOut.val.valid <=> expected = NoReason

\* the clock-skew allowance of the specification, in milliseconds
C22_ClockSkew == 60 * 1000
\* C22: token age is bounded on both sides.  An otherwise valid token whose
\* timestamp lies more than the clock-skew allowance in the future of the
\* server clock is rejected with 'Token expired'.
C22_FutureTokenRejected ==
  (/\ Validated
   /\ C11_OtherwiseValid(LastTokenSeen)
   /\ now - LastTokenSeen[2].obj.timestamp < 0 - C22_ClockSkew)
    => (~lastOut.val.valid /\ lastOut.val.reason = R_EXPIRED)

\* C24: a registration whose publicKey cannot be imported as an RSA
\* verification key is rejected and not stored, so every key in the
\* registry can be imported and no token fails validation because the
\* stored key is unusable.
C24_MalformedKeyNeverStored ==
  /\ (lastOut.handler = "register" /\ ~ImportKeyOk(lastReq.body.publicKey))
       => ~lastOut.success
  /\ \A k \in DOMAIN appRegistry : ImportKeyOk(appRegistry[k])
  /\ (Validated /\ lastOut.val.lookup /\ ~lastOut.success
      /\ ~FalsyJWK(getAppPublicKey(appRegistry, InstallationOf(LastTokenSeen),
                                   KidOf(LastTokenSeen))))
       => ImportKeyOk(getAppPublicKey(appRegistry, InstallationOf(LastTokenSeen),
                                      KidOf(LastTokenSeen)))

\* how much later the same token is presented again
C25_ReplayDelays == {0, 1, MAX_TOKEN_AGE - 1, MAX_TOKEN_AGE}
\* at the given time the token is inside the age window (a token without a
\* timestamp never reaches the age check)
C25_InWindow(t, time) ==
  (Parses(t) /\ t[2].obj.timestamp > 0) => time - t[2].obj.timestamp <= MAX_TOKEN_AGE
C26_Taxonomy ==
  {R_FORMAT, R_ALG, R_CLAIMS, R_BUNDLE, R_EXPIRED, R_UNREGISTERED, R_SIGNATURE}
\* C26: validateSecureToken returns admit or reject-with-reason for every
\* token and registry; every failure inside it becomes one of the seven
\* reason codes of the taxonomy, and fetch answers a rejected token with
\* 401.
C26_SevenReasons ==
  Validated =>
    /\ lastOut.val.valid => lastOut.val.reason = NoReason
    /\ ~lastOut.val.valid => lastOut.val.reason \in C26_Taxonomy
    /\ (lastOp = "fetch" /\ ~lastOut.val.valid) => lastOut.status = 401

\* C23: every token generateSecureToken returns has header.kid equal to
\* the fingerprint of the public half of the key pair whose private half
\* made its signature, in every interleaving of generateSecureToken and
\* initializeApp calls on the one secureAuth object.
C23_KidNamesSigningKey ==
  lastToken # <<>> =>
    \E k \in 1..MaxKeyGens :
      /\ SignedBy(lastToken, k)
      /\ KidOf(lastToken) = Fingerprint(JWK(k))

\* C27: the installation identity is generated once and held.  Every token
\* the install issues carries the installationId of the token issued
\* before it, also when the app process was restarted in between.
C27_InstallationIdHeld ==
  [][(lastToken # <<>> /\ lastToken' # <<>>)
       => InstallationOf(lastToken') = InstallationOf(lastToken)]_vars

\* the step is one call of initializeApp()
C28_InitializeAppCall == lastOp = "idle" /\ lastOp' = "initializeApp"
\* C28: registration happens once.  A call of initializeApp made when the
\* app is marked registered leaves it registered, generates no key pair and
\* sends no registration request; a call made when it is not sends one and
\* marks the app registered exactly when the answer is a success; and the
\* mark changes in no other step.
C28_RegistersOnce ==
  [][/\ (C28_InitializeAppCall /\ appRegistered)
          => /\ appRegistered'
             /\ keyPair' = keyPair
             /\ keyGens' = keyGens
             /\ lastReq' = NoRequest
     /\ (C28_InitializeAppCall /\ ~appRegistered)
          => /\ lastReq'.path = P_REGISTER
             /\ appRegistered' <=> ResponseOk(lastOut'.status)
     /\ appRegistered' # appRegistered
          => (C28_InitializeAppCall /\ appRegistered' /\ ResponseOk(lastOut'.status))
    ]_vars
\* C28 witness: initializeApp has returned for an app that was already
\* marked registered: no request was sent, and the one key pair generated
\* for the registration is still the key pair
C28_Witness ==
  /\ lastOp = "initializeApp"
  /\ lastReq = NoRequest
  /\ appRegistered
  /\ keyGens = 1
  /\ keyPair = 1

\* C29: with the worker driven through fetch only, from an empty registry,
\* a key is stored only while handling a request whose bearer token was
\* validated successfully; so the registry stays empty, and every
\* request that is not OPTIONS is answered 401.
C29_RegistryStaysEmpty ==
  /\ lastOut.success => (Validated /\ lastOut.val.valid)
  /\ appRegistry = EmptyRegistry
  /\ registered = {}
  /\ lastReq.method \notin {"", "OPTIONS"} => lastOut.status = 401
  /\ \A i \in 1..Len(fetches) : FetchStatus(fetches[i]) = 401
\* C29 witness: a registration request that carries a fresh well-formed
\* token, signed by the key its kid names, was answered 401 'App not
\* registered', and the registry is empty
C29_Witness ==
  /\ lastOp = "fetch"
  /\ lastReq.method = "POST"
  /\ lastReq.path = P_REGISTER
  /\ lastReq.auth.scheme = "Bearer"
  /\ FreshWellFormed(LastTokenSeen)
  /\ \E k \in InputKeys :
       SignedBy(LastTokenSeen, k) /\ KidOf(LastTokenSeen) = Fingerprint(JWK(k))
  /\ lastOut.status = 401
  /\ lastOut.reason = R_UNREGISTERED
  /\ appRegistry = EmptyRegistry

\* C30: every registration request registerWithServer sends carries the
\* fingerprint of the publicKey in the same request, and every registry
\* entry stored under key id f holds a public key whose fingerprint is f,
\* also when initializeApp calls overlap.
C30_FingerprintOfSameKey ==
  /\ (lastOp = "initializeApp" /\ lastReq.path = P_REGISTER)
       => lastReq.body.fingerprint = Fingerprint(lastReq.body.publicKey)
  /\ \A r \in registered : r.fingerprint = Fingerprint(r.publicKey)

=============================================================================
